---- MODULE Spec2Model ----
(***************************************************************************)
(* Model of the Three-Screen strategy of TradingWithPy                     *)
(* (app/strategies/strategies.py) and of the indicator functions it calls  *)
(* (app/utils/indicators.py), and of the StrategyManager that runs         *)
(* registered strategies (app/strategies/strategy_manager.py).             *)
(*                                                                         *)
(* SpecPair runs two executions of the strategy side by side, SpecManager  *)
(* is the registry and run_strategies, SpecIndicators applies an indicator *)
(* function or analyze_mid_term to bounded arguments, SpecAlpaca is the    *)
(* retry recursion of AlpacaAPI.get_candlestick_data                       *)
(* (app/api/alpaca_api.py).                                                *)
(* Two specifications share the strategy's state and its execute loop:     *)
(*   Spec      the three analyses of a loop iteration are taken by their   *)
(*             return contract: each returns 'buy', 'sell' or 'neutral',   *)
(*             or the fetch/analysis raises;                               *)
(*   SpecData  the provider returns candlestick windows and the votes are  *)
(*             computed from them by analyze_long_term and the indicator   *)
(*             functions, as the code computes them.                       *)
(* Python values whose type decides the behaviour are tagged records       *)
(* (PyInt, PyList, PyRaise); None is the string "None".                    *)
(***************************************************************************)
EXTENDS Integers, Sequences, FiniteSets, TLC

VARIABLES
    full_symbols_list,  \* __init__: the SymbolInfo of every trading symbol
    exchange,           \* self.exchange: the exchange filter, or None
    symbols_list,       \* self.symbols_list: the tracked symbols
    state,              \* self.state: dict symbol string -> signal state
    pc,                 \* "constructed", or the position of execute: "loop",
                        \* "returned", "raised"
    i,                  \* index in symbols_list of the next loop iteration
    signal_changes,     \* execute's local list of events
    market_data,        \* the windows fetched by the last iteration
    cur,                \* key of the symbol of the last iteration, or None
    long_signal,        \* the votes of the last iteration (None: not assigned)
    mid_signal,
    short_signal,
    snapshot,           \* history: self.state when the running call began
    result,             \* what the last finished call returned, or None
    exc,                \* the exception the last call raised, or None
    pair,               \* two executions of the strategy side by side, or None
    strategies,         \* StrategyManager.strategies: the registry
    notifier,           \* the send_notification calls of the last run
    mgr,                \* the last StrategyManager operation and its outcome
    calc,               \* an indicator call: its arguments and its outcome
    api                 \* a get_candlestick_data call of AlpacaAPI, or None

strategy_vars == <<full_symbols_list, exchange, symbols_list, state, pc, i,
                   signal_changes, market_data, cur, long_signal, mid_signal,
                   short_signal, snapshot, result, exc>>
manager_vars == <<strategies, notifier, mgr>>

vars == <<strategy_vars, pair, manager_vars, calc, api>>

----------------------------------------------------------------------------
(* Bounds of the model *)

\* the provider lists at most this many trading symbols
MaxSymbols == 2

----------------------------------------------------------------------------
(* Python values *)

NoneVal == "None"

\* truth value of `if x:` for x a str or None
Truthy(x) == x # NoneVal /\ x # ""

\* dict.get(key): None when the key is absent
DictGet(d, key) == IF key \in DOMAIN d THEN d[key] ELSE NoneVal

\* d[key] = value: adds the key when it is absent
DictSet(d, key, value) ==
    [k \in (DOMAIN d) \cup {key} |-> IF k = key THEN value ELSE d[k]]

----------------------------------------------------------------------------
(* The market-data provider: symbols and their SymbolInfo *)

Catalogue == <<"AAPL", "MSFT", "BTCUSD", "ETHUSD">>

AssetName(symbol) ==
    CASE symbol = "AAPL" -> "Apple Inc."
      [] symbol = "MSFT" -> "Microsoft Corporation"
      [] symbol = "BTCUSD" -> "Bitcoin"
      [] OTHER -> "Ethereum"

Exchanges == {"NASDAQ", "NYSE"}

\* values the caller passes as `exchange`
Filters == {NoneVal, "", "NASDAQ", "NYSE", "ARCA"}

SymbolInfo(name, exch, symbol) ==
    [name |-> name, exchange |-> exch, symbol |-> symbol]

\* the key under which __init__ stores a symbol in self.state: symbol.symbol
StateKey(symbol) == symbol.symbol

\* the key execute uses for a symbol (fetches, self.state.get, self.state[...])
\* (faulty variant: the loop keys the map by the asset name)
LoopKeyByName(symbol) == symbol.name
LoopKey(symbol) == symbol.symbol

Signals == {"buy", "sell", "neutral"}

----------------------------------------------------------------------------
(* ThreeScreenStrategy.__init__ *)

\* self.symbols_list
\* (faulty variant: the exchange filter is ignored)
TrackedAll(full, exch) == full
\* (faulty variant: the filter keeps the symbols of the other exchanges)
TrackedOthers(full, exch) ==
    IF Truthy(exch)
    THEN SelectSeq(full, LAMBDA symbol : symbol.exchange # exch)
    ELSE full
TrackedSymbols(full, exch) ==
    IF Truthy(exch)
    THEN SelectSeq(full, LAMBDA symbol : symbol.exchange = exch)
    ELSE full

\* self.state
InitialState(full) ==
    [k \in {StateKey(full[j]) : j \in 1..Len(full)} |-> "neutral"]

Construct(symbols, exchange_of, exch) ==
    LET full == [j \in 1..Len(symbols) |->
                    SymbolInfo(AssetName(symbols[j]), exchange_of[j], symbols[j])]
    IN  /\ full_symbols_list = full
        /\ exchange = exch
        /\ symbols_list = TrackedSymbols(full, exch)
        /\ state = InitialState(full)

\* no execute call has been made yet
InitExecute ==
    /\ pc = "constructed"
    /\ i = 0
    /\ signal_changes = <<>>
    /\ market_data = NoneVal
    /\ cur = NoneVal
    /\ long_signal = NoneVal
    /\ mid_signal = NoneVal
    /\ short_signal = NoneVal
    /\ snapshot = state
    /\ result = NoneVal
    /\ exc = NoneVal

\* StrategyManager.__init__: self.strategies = {}
InitManager ==
    /\ strategies = <<>>
    /\ notifier = <<>>
    /\ mgr = [op |-> "init"]

Init ==
    /\ \E n \in 0..MaxSymbols :
         \E exchange_of \in [1..n -> Exchanges] :
           \E exch \in Filters :
             Construct(SubSeq(Catalogue, 1, n), exchange_of, exch)
    /\ InitExecute
    /\ InitManager
    /\ pair = NoneVal
    /\ calc = NoneVal
    /\ api = NoneVal

----------------------------------------------------------------------------
(* ThreeScreenStrategy.execute: the transition rule *)

\* new_state = prev_state
\* (faulty variant: new_state starts as 'neutral')
NewStateInitNeutral(prev_state) == "neutral"
NewStateInit(prev_state) == prev_state

\* long_signal == 'buy': bullish trend
\* (faulty variant: one of the two votes is enough)
BullishRegimeEither(prev_state, mid, short) ==
    IF prev_state = "buy"
    THEN IF mid = "sell" \/ short = "sell"
         THEN "sell" ELSE NewStateInit(prev_state)
    ELSE IF mid = "buy" \/ short = "buy"
         THEN "buy" ELSE NewStateInit(prev_state)
\* (faulty variant: the short vote is not consulted)
BullishRegimeMidOnly(prev_state, mid, short) ==
    IF prev_state = "buy"
    THEN IF mid = "sell" THEN "sell" ELSE NewStateInit(prev_state)
    ELSE IF mid = "buy" THEN "buy" ELSE NewStateInit(prev_state)
BullishRegime(prev_state, mid, short) ==
    IF prev_state = "buy"
    THEN IF mid = "sell"
         THEN IF short = "sell" THEN "sell" ELSE NewStateInit(prev_state)
         ELSE NewStateInit(prev_state)
    ELSE IF mid = "buy"
         THEN IF short = "buy" THEN "buy" ELSE NewStateInit(prev_state)
         ELSE NewStateInit(prev_state)

\* long_signal == 'sell': bearish trend
\* (faulty variant: a short position is never closed)
BearishRegimeNoClose(prev_state, mid, short) ==
    IF mid = "sell"
    THEN IF short = "sell" THEN "sell" ELSE NewStateInit(prev_state)
    ELSE NewStateInit(prev_state)
\* (faulty variant: one of the two votes is enough)
BearishRegimeEither(prev_state, mid, short) ==
    IF prev_state = "sell"
    THEN IF mid = "buy" \/ short = "buy"
         THEN "buy" ELSE NewStateInit(prev_state)
    ELSE IF mid = "sell" \/ short = "sell"
         THEN "sell" ELSE NewStateInit(prev_state)
BearishRegime(prev_state, mid, short) ==
    IF prev_state = "sell"
    THEN IF mid = "buy"
         THEN IF short = "buy" THEN "buy" ELSE NewStateInit(prev_state)
         ELSE NewStateInit(prev_state)
    ELSE IF mid = "sell"
         THEN IF short = "sell" THEN "sell" ELSE NewStateInit(prev_state)
         ELSE NewStateInit(prev_state)

\* the new state of a symbol from its previous state and the three votes
\* (faulty variant: a neutral long-term vote is treated as bullish)
TransitionRuleNoRegime(prev_state, long, mid, short) ==
    IF long = "sell"
    THEN BearishRegime(prev_state, mid, short)
    ELSE BullishRegime(prev_state, mid, short)
TransitionRule(prev_state, long, mid, short) ==
    IF long = "buy" THEN BullishRegime(prev_state, mid, short)
    ELSE IF long = "sell" THEN BearishRegime(prev_state, mid, short)
    ELSE NewStateInit(prev_state)

\* if new_state != prev_state
\* (faulty variant: every iteration counts as a change)
StateChangedAlways(new_state, prev_state) == TRUE
StateChanged(new_state, prev_state) == new_state # prev_state

\* if new_state in ['buy', 'sell']
IsSignal(new_state) == new_state \in {"buy", "sell"}

\* str.upper() of a signal state
Upper(s) ==
    CASE s = "buy" -> "BUY"
      [] s = "sell" -> "SELL"
      [] s = "neutral" -> "NEUTRAL"
      [] OTHER -> s

\* the dict appended to signal_changes
SignalEvent(symbol, new_state, data) ==
    [symbol |-> symbol,
     type |-> new_state,
     details |-> <<"Three-screen strategy triggered a ", Upper(new_state), " signal.">>,
     market_data |-> data]

----------------------------------------------------------------------------
(* ThreeScreenStrategy.execute: the loop *)

LongLimit == 250
MidLimit == 50
ShortLimit == 50

\* the three get_candlestick_data requests of one loop iteration
Requests(key) ==
    [long_term |-> [symbol |-> key, interval |-> "long_term", limit |-> LongLimit],
     mid_term |-> [symbol |-> key, interval |-> "mid_term", limit |-> MidLimit],
     short_term |-> [symbol |-> key, interval |-> "short_term", limit |-> ShortLimit]]

\* execute is entered: signal_changes = []
ExecuteCall ==
    /\ pc \in {"constructed", "returned", "raised"}
    /\ pc' = "loop"
    /\ i' = 1
    /\ signal_changes' = <<>>
    /\ snapshot' = state
    /\ market_data' = NoneVal
    /\ cur' = NoneVal
    /\ long_signal' = NoneVal
    /\ mid_signal' = NoneVal
    /\ short_signal' = NoneVal
    /\ result' = NoneVal
    /\ exc' = NoneVal
    /\ UNCHANGED <<full_symbols_list, exchange, symbols_list, state>>
    /\ UNCHANGED <<pair, manager_vars, calc, api>>

\* a fetch or an analysis of the iteration raises: execute is left by the
\* exception, signal_changes is lost
\* (faulty variant: the state changes of the call are undone)
IterationRaisesAndRestores(symbol, data, kind) ==
    /\ pc' = "raised"
    /\ exc' = kind
    /\ cur' = LoopKey(symbol)
    /\ market_data' = data
    /\ long_signal' = NoneVal
    /\ mid_signal' = NoneVal
    /\ short_signal' = NoneVal
    /\ state' = snapshot
    /\ UNCHANGED <<full_symbols_list, exchange, symbols_list, i,
                   signal_changes, snapshot, result>>
    /\ UNCHANGED <<pair, manager_vars, calc, api>>
IterationRaises(symbol, data, kind) ==
    /\ pc' = "raised"
    /\ exc' = kind
    /\ cur' = LoopKey(symbol)
    /\ market_data' = data
    /\ long_signal' = NoneVal
    /\ mid_signal' = NoneVal
    /\ short_signal' = NoneVal
    /\ UNCHANGED <<full_symbols_list, exchange, symbols_list, state, i,
                   signal_changes, snapshot, result>>
    /\ UNCHANGED <<pair, manager_vars, calc, api>>

\* the rest of the iteration once the three votes are known
IterationVotes(symbol, data, long, mid, short) ==
    LET key == LoopKey(symbol)
        prev_state == DictGet(state, key)
        new_state == TransitionRule(prev_state, long, mid, short)
    IN  /\ cur' = key
        /\ market_data' = data
        /\ long_signal' = long
        /\ mid_signal' = mid
        /\ short_signal' = short
        /\ IF StateChanged(new_state, prev_state)
           THEN /\ state' = DictSet(state, key, new_state)
                /\ signal_changes' =
                     IF IsSignal(new_state)
                     THEN Append(signal_changes, SignalEvent(symbol, new_state, data))
                     ELSE signal_changes
           ELSE UNCHANGED <<state, signal_changes>>
        /\ i' = i + 1
        /\ UNCHANGED <<full_symbols_list, exchange, symbols_list, pc,
                       snapshot, result, exc>>
        /\ UNCHANGED <<pair, manager_vars, calc, api>>

\* one iteration of `for symbol in self.symbols_list`, the analyses taken by
\* their return contract
ExecuteSymbol ==
    /\ pc = "loop"
    /\ i <= Len(symbols_list)
    /\ LET symbol == symbols_list[i]
           data == Requests(LoopKey(symbol))
       IN  \/ IterationRaises(symbol, data, "Exception")
           \/ \E long \in Signals : \E mid \in Signals : \E short \in Signals :
                IterationVotes(symbol, data, long, mid, short)

\* the loop is over: return signal_changes
ExecuteReturn ==
    /\ pc = "loop"
    /\ i > Len(symbols_list)
    /\ pc' = "returned"
    /\ result' = signal_changes
    /\ UNCHANGED <<full_symbols_list, exchange, symbols_list, state, i,
                   signal_changes, market_data, cur, long_signal, mid_signal,
                   short_signal, snapshot, exc>>
    /\ UNCHANGED <<pair, manager_vars, calc, api>>

Next == ExecuteCall \/ ExecuteSymbol \/ ExecuteReturn

Spec == Init /\ [][Next]_vars

----------------------------------------------------------------------------
(* Numbers: a Python float is a rational <<num, den>> with den > 0; the      *)
(* result of each float operation is rounded to MantissaBits significant    *)
(* bits, to nearest with ties to even, as IEEE doubles are to 53.           *)

Abs(n) == IF n < 0 THEN -n ELSE n

RECURSIVE Gcd(_, _)
Gcd(a, b) == IF b = 0 THEN a ELSE Gcd(b, a % b)

\* n/d with the common factor g taken out and the sign in the numerator
Reduced(n, d, g) ==
    IF g = 0 THEN <<0, 1>>
    ELSE IF d < 0 THEN <<-(n \div g), -(d \div g)>>
    ELSE <<n \div g, d \div g>>

Rat(n, d) == Reduced(n, d, Gcd(Abs(n), Abs(d)))

RAdd(a, b) == Rat(a[1] * b[2] + b[1] * a[2], a[2] * b[2])
RSub(a, b) == Rat(a[1] * b[2] - b[1] * a[2], a[2] * b[2])
RMul(a, b) == Rat(a[1] * b[1], a[2] * b[2])
RDivInt(a, n) == Rat(a[1], a[2] * n)
RLess(a, b) == a[1] * b[2] < b[1] * a[2]

\* float(x) of a price given as a number
Float(x) == Rat(x, 1)

\* Python floats are binary floating-point numbers; the model keeps
\* MantissaBits significant bits where the machine keeps 53, with the same
\* rounding (to nearest, ties to even) of the exact result of each operation
MantissaBits == 5

\* exponents the roundings look through
MaxExponent == 30

\* the integer nearest to a/d, ties to the even one
NearestEven(a, d) ==
    IF 2 * (a % d) > d \/ (2 * (a % d) = d /\ (a \div d) % 2 = 1)
    THEN (a \div d) + 1
    ELSE a \div d

\* the float nearest to a/d, a > 0 and d > 0: the quotient is scaled by the
\* power of two that brings it into 2^(MantissaBits-1) .. 2^MantissaBits,
\* rounded to an integer there and scaled back
RoundAbove(a, d, scale) == <<NearestEven(a, d * scale) * scale, 1>>

RoundBelow(a, d, scale) == Rat(NearestEven(a * scale, d), scale)

RoundPos(a, d) ==
    IF a \div d >= 2 ^ MantissaBits
    THEN RoundAbove(a, d, 2 ^ (CHOOSE e \in 1..MaxExponent :
                                a \div (d * 2 ^ e) < 2 ^ MantissaBits))
    ELSE IF a < d * 2 ^ (MantissaBits - 1)
    THEN RoundBelow(a, d, 2 ^ (CHOOSE e \in 1..MaxExponent :
                                a * 2 ^ e >= d * 2 ^ (MantissaBits - 1)))
    ELSE <<NearestEven(a, d), 1>>

\* the float nearest to the exact value q
Signed(n, r) == IF n < 0 THEN <<-r[1], r[2]>> ELSE r

Round(q) ==
    IF q[1] = 0 THEN <<0, 1>> ELSE Signed(q[1], RoundPos(Abs(q[1]), q[2]))

\* float +, -, *, / and the division of a float by an int
FAdd(a, b) == Round(RAdd(a, b))
FSub(a, b) == Round(RSub(a, b))
FMul(a, b) == Round(RMul(a, b))
FDiv(a, b) == Round(Rat(a[1] * b[2], a[2] * b[1]))
FDivInt(a, n) == Round(RDivInt(a, n))

\* the integer nearest to the square root of a/d, ties to the even one, for
\* 2^(2 MantissaBits - 2) <= a/d < 2^(2 MantissaBits)
HalfUp(a, d, floor) ==
    IF (2 * floor + 1) * (2 * floor + 1) * d < 4 * a
       \/ ((2 * floor + 1) * (2 * floor + 1) * d = 4 * a /\ floor % 2 = 1)
    THEN floor + 1
    ELSE floor

SqrtMantissa(a, d) ==
    HalfUp(a, d, CHOOSE r \in (2 ^ (MantissaBits - 1))..(2 ^ MantissaBits - 1) :
                    r * r * d <= a /\ a < (r + 1) * (r + 1) * d)

\* the float nearest to the square root of a/d, a > 0 and d > 0: a/d is
\* scaled by the power of four that brings it into the range of SqrtMantissa
SqrtAbove(a, d, scale) == <<SqrtMantissa(a, d * scale * scale) * scale, 1>>

SqrtBelow(a, d, scale) == Rat(SqrtMantissa(a * scale * scale, d), scale)

SqrtPos(a, d) ==
    IF a \div d >= 2 ^ (2 * MantissaBits)
    THEN SqrtAbove(a, d, 2 ^ (CHOOSE e \in 1..MaxExponent :
                                a \div (d * 2 ^ (2 * e)) < 2 ^ (2 * MantissaBits)))
    ELSE IF a < d * 2 ^ (2 * MantissaBits - 2)
    THEN SqrtBelow(a, d, 2 ^ (CHOOSE e \in 1..MaxExponent :
                                a * 2 ^ (2 * e) >= d * 2 ^ (2 * MantissaBits - 2)))
    ELSE <<SqrtMantissa(a, d), 1>>

\* x ** 0.5 of a float x >= 0
FSqrt(x) == IF x[1] = 0 THEN <<0, 1>> ELSE SqrtPos(x[1], x[2])

\* the totals sum(xs) goes through while it adds xs[lo], ..., xs[hi] to
\* start, left to right: first the totals up to the middle, then the rest
RECURSIVE running_totals(_, _, _, _)
running_totals(start, xs, lo, hi) ==
    IF lo > hi THEN <<>>
    ELSE IF lo = hi THEN <<FAdd(start, xs[lo])>>
    ELSE LET mid == (lo + hi) \div 2
             left == running_totals(start, xs, lo, mid)
         IN  left \o running_totals(left[Len(left)], xs, mid + 1, hi)

\* sum(xs) of a list of floats: 0 + xs[0] + xs[1] + ..., left to right
Sum(xs) ==
    IF xs = <<>> THEN <<0, 1>>
    ELSE LET totals == running_totals(<<0, 1>>, xs, 1, Len(xs))
         IN  totals[Len(totals)]

----------------------------------------------------------------------------
(* Python values whose type decides what an operation does *)

PyInt(n) == [type |-> "int", val |-> n]
PyList(xs) == [type |-> "list", val |-> xs]
PyStr(x) == [type |-> "str", val |-> x]
PyRaise(kind) == [type |-> "raise", val |-> kind]
IsRaise(v) == v.type = "raise"

\* a - b: defined on numbers, a TypeError when an operand is a list
PySub(a, b) ==
    IF a.type = "int" /\ b.type = "int" THEN PyInt(a.val - b.val)
    ELSE PyRaise("TypeError")

\* xs[:n] of a list, n >= 0
Slice(xs, n) == SubSeq(xs, 1, IF n < Len(xs) THEN n ELSE Len(xs))

----------------------------------------------------------------------------
(* IndicatorCalculator (app/utils/indicators.py) *)

\* [float(c["close"]) for c in candlesticks]
extract_closing_prices(candlesticks) ==
    PyList([j \in 1..Len(candlesticks) |-> Float(candlesticks[j].close)])

\* the loop of calculate_ema: appends one value for each i in
\* range(period, len(closing_prices)); `n` is the 1-based position of
\* closing_prices[i]
RECURSIVE ema_loop(_, _, _, _)
ema_loop(ema, prices, multiplier, n) ==
    IF n > Len(prices) THEN ema
    ELSE LET last == ema[Len(ema)]
             new_ema == FAdd(FMul(FSub(prices[n], last), multiplier), last)
         IN  ema_loop(Append(ema, new_ema), prices, multiplier, n + 1)

\* None as an element of a list of floats
Null == <<>>

\* [None] * (period - 1)
\* (faulty variant: [None] * period)
ema_padding_full(p) == [j \in 1..p |-> Null]
ema_padding(p) == [j \in 1..(p - 1) |-> Null]

\* 2 / (period + 1)
ema_multiplier(p) == Round(Rat(2, p + 1))

\* sum(closing_prices[:period]) / period
initial_sma(p, prices) == FDivInt(Sum(Slice(prices, p)), p)

\* calculate_ema(period, closing_prices): `period - 1` and `period + 1` need a
\* number, `closing_prices[:period]` needs a list
calculate_ema(period, closing_prices) ==
    IF period.type # "int" THEN PyRaise("TypeError")
    ELSE IF closing_prices.type # "list" THEN PyRaise("TypeError")
    ELSE LET p == period.val
             prices == closing_prices.val
         IN  PyList(ema_loop(Append(ema_padding(p), initial_sma(p, prices)),
                             prices, ema_multiplier(p), p + 1))

\* calculate_macd(closing_prices, short_period, long_period, signal_period):
\* it passes (closing_prices, period) to calculate_ema(period, closing_prices)
\* and subtracts the results with `-`
\* its statements in turn, each given the values of the ones before it; a
\* statement that raises ends the call
macd_return(macd_line, signal_line, histogram) ==
    IF IsRaise(histogram) THEN histogram
    ELSE PyList(<<macd_line, signal_line, histogram>>)

macd_histogram(macd_line, signal_line) ==
    IF IsRaise(signal_line) THEN signal_line
    ELSE macd_return(macd_line, signal_line, PySub(macd_line, signal_line))

macd_signal_line(macd_line, signal_period) ==
    IF IsRaise(macd_line) THEN macd_line
    ELSE macd_histogram(macd_line, calculate_ema(macd_line, signal_period))

macd_lines(short_ema, long_ema, signal_period) ==
    IF IsRaise(short_ema) THEN short_ema
    ELSE IF IsRaise(long_ema) THEN long_ema
    ELSE macd_signal_line(PySub(short_ema, long_ema), signal_period)

calculate_macd(closing_prices, short_period, long_period, signal_period) ==
    macd_lines(calculate_ema(closing_prices, short_period),
               calculate_ema(closing_prices, long_period), signal_period)

----------------------------------------------------------------------------
(* ThreeScreenStrategy.analyze_long_term *)

MacdShort == 12
MacdLong == 26
MacdSignal == 9
EmaFast == 50
EmaSlow == 200

\* xs[-1] of a non-empty list
Last(xs) == xs[Len(xs)]

\* the vote of the first screen, or the exception it raises
long_term_vote(macd_last, signal_last, ema_50, ema_200) ==
    IF RLess(signal_last, macd_last) /\ RLess(ema_200, ema_50) THEN "buy"
    ELSE IF RLess(macd_last, signal_last) /\ RLess(ema_50, ema_200) THEN "sell"
    ELSE "neutral"

long_term_screen(closing_prices, macd) ==
    IF IsRaise(macd) THEN macd
    ELSE PyStr(long_term_vote(
            Last(macd.val[1].val), Last(macd.val[2].val),
            Last(calculate_ema(PyInt(EmaFast), closing_prices).val),
            Last(calculate_ema(PyInt(EmaSlow), closing_prices).val)))

analyze_long_term(data) ==
    long_term_screen(extract_closing_prices(data),
                     calculate_macd(extract_closing_prices(data), PyInt(MacdShort),
                                    PyInt(MacdLong), PyInt(MacdSignal)))

----------------------------------------------------------------------------
(* execute on candlestick windows *)

\* closing prices the provider serves: flat, rising and falling series
Shapes == {"flat", "up", "down"}

BasePrice == 100

Candle(shape, j) ==
    [time |-> j * 1000,
     close |-> CASE shape = "flat" -> BasePrice
                 [] shape = "up" -> BasePrice + j
                 [] OTHER -> BasePrice + LongLimit - j]

\* get_candlestick_data(symbol, interval, limit) when the provider has the
\* bars asked for: `limit` candlesticks, ascending by time
Window(shape, limit) == [j \in 1..limit |-> Candle(shape, j)]

InitData == Init

\* one iteration of the loop: the three windows are fetched, then line 90
\* runs analyze_long_term; when it raises, the iteration and the call end
\* there. The second and third screens are taken by their return contract.
IterationAfterLong(symbol, data, long) ==
    IF IsRaise(long)
    THEN IterationRaises(symbol, data, long.val)
    ELSE \E mid \in Signals : \E short \in Signals :
           IterationVotes(symbol, data, long.val, mid, short)

ExecuteSymbolData ==
    /\ pc = "loop"
    /\ i <= Len(symbols_list)
    /\ \E ls \in Shapes : \E ms \in Shapes : \E ss \in Shapes :
         LET data == [long_term |-> Window(ls, LongLimit),
                      mid_term |-> Window(ms, MidLimit),
                      short_term |-> Window(ss, ShortLimit)]
         IN  IterationAfterLong(symbols_list[i], data,
                                analyze_long_term(data.long_term))

NextData == ExecuteCall \/ ExecuteSymbolData \/ ExecuteReturn

SpecData == InitData /\ [][NextData]_vars

----------------------------------------------------------------------------
(* Properties of the transition rule, checked under Spec *)

\* the last loop iteration ran to its end with the three votes known
Voted == cur # NoneVal /\ long_signal # NoneVal

\* the state of the last iteration's symbol before and after the iteration
\* (a call handles each tracked symbol once, so its state when the call
\* began is its state when the iteration began)
PrevOfCur == DictGet(snapshot, cur)
NowOfCur == DictGet(state, cur)

\* the positions of the events of a list that are about the symbol `key`
EventsFor(events, key) ==
    {j \in 1..Len(events) : events[j].symbol.symbol = key}

\* C1: with a long-term vote of buy, a symbol in state buy goes to sell
\* exactly when mid and short both vote sell and stays buy otherwise; a symbol
\* in state neutral or sell goes to buy exactly when mid and short both vote
\* buy and keeps its state otherwise.
C1_BullishRegime ==
    (Voted /\ long_signal = "buy") =>
        NowOfCur =
            IF PrevOfCur = "buy"
            THEN IF mid_signal = "sell" /\ short_signal = "sell"
                 THEN "sell" ELSE "buy"
            ELSE IF mid_signal = "buy" /\ short_signal = "buy"
                 THEN "buy" ELSE PrevOfCur

C1_Witness ==
    /\ Voted /\ long_signal = "buy"
    /\ PrevOfCur = "buy" /\ mid_signal = "sell" /\ short_signal = "sell"
    /\ NowOfCur = "sell"

\* C2: with a long-term vote of sell, a symbol in state sell goes to buy
\* exactly when mid and short both vote buy and stays sell otherwise; a symbol
\* in state neutral or buy goes to sell exactly when mid and short both vote
\* sell and keeps its state otherwise.
C2_BearishRegime ==
    (Voted /\ long_signal = "sell") =>
        NowOfCur =
            IF PrevOfCur = "sell"
            THEN IF mid_signal = "buy" /\ short_signal = "buy"
                 THEN "buy" ELSE "sell"
            ELSE IF mid_signal = "sell" /\ short_signal = "sell"
                 THEN "sell" ELSE PrevOfCur

C2_Witness ==
    /\ Voted /\ long_signal = "sell"
    /\ PrevOfCur = "sell" /\ mid_signal = "buy" /\ short_signal = "buy"
    /\ NowOfCur = "buy"

\* C3: with a neutral long-term vote the symbol's state is unchanged and no
\* event is emitted for it, whatever its previous state and the mid and short
\* votes.
C3_NeutralLongHolds ==
    (Voted /\ long_signal = "neutral") =>
        /\ NowOfCur = PrevOfCur
        /\ EventsFor(signal_changes, cur) = {}

C3_Witness ==
    /\ Voted /\ long_signal = "neutral"
    /\ PrevOfCur = "sell" /\ mid_signal = "buy" /\ short_signal = "buy"
    /\ NowOfCur = "sell"

\* C4: every symbol starts in neutral, and no step takes a symbol whose state
\* is buy or sell back to neutral (or removes it from the map): once not
\* neutral, never neutral again.
C4_NeverBackToNeutral ==
    /\ \A k \in DOMAIN state : state[k] = "neutral"
    /\ [][\A k \in DOMAIN state :
             state[k] # "neutral" => DictGet(state', k) \in {"buy", "sell"}]_vars

C4_Witness ==
    /\ Voted /\ long_signal = "neutral"
    /\ PrevOfCur = "buy" /\ NowOfCur = "buy"
    /\ \E k \in DOMAIN state : k # cur /\ state[k] = "sell"

\* C5 as stated: a change from buy to sell or from sell to buy happens only
\* when long, mid and short all equal the new state.
C5_FlipNeedsAllThree ==
    (Voted /\ PrevOfCur \in {"buy", "sell"} /\ NowOfCur # PrevOfCur) =>
        /\ long_signal = NowOfCur
        /\ mid_signal = NowOfCur
        /\ short_signal = NowOfCur

\* C5 amended: a change from buy to sell or from sell to buy happens only
\* when the mid and the short vote both equal the new state and the long-term
\* vote is buy or sell.
C5_FlipNeedsMidShort ==
    (Voted /\ PrevOfCur \in {"buy", "sell"} /\ NowOfCur # PrevOfCur) =>
        /\ long_signal \in {"buy", "sell"}
        /\ mid_signal = NowOfCur
        /\ short_signal = NowOfCur

C5_Witness ==
    /\ Voted /\ PrevOfCur = "sell" /\ NowOfCur = "buy"
    /\ long_signal = "sell" /\ mid_signal = "buy" /\ short_signal = "buy"

\* C6: the list a call returns holds exactly one event for each symbol whose
\* state the call changed and none for any other symbol; an event's type is
\* the symbol's new state, which is buy or sell.
C6_EventsAreTheChanges ==
    (pc = "returned") =>
        /\ \A k \in DOMAIN state :
             Cardinality(EventsFor(result, k)) =
                 IF state[k] # DictGet(snapshot, k) THEN 1 ELSE 0
        /\ \A j \in 1..Len(result) :
             /\ result[j].symbol.symbol \in DOMAIN state
             /\ result[j].type = state[result[j].symbol.symbol]
             /\ result[j].type \in {"buy", "sell"}

C6_Witness ==
    /\ pc = "returned"
    /\ Len(result) = 1
    /\ result[1].type = "sell"
    /\ \E k \in DOMAIN state :
         /\ EventsFor(result, k) = {}
         /\ \E j \in 1..Len(symbols_list) : symbols_list[j].symbol = k
         /\ state[k] = "buy"

\* C7: when mid and short are not both buy and not both sell, the symbol's
\* state is unchanged and no event is emitted for it, for every previous
\* state and every long-term vote.
C7_MixedSignalHolds ==
    (Voted /\ ~(mid_signal = "buy" /\ short_signal = "buy")
           /\ ~(mid_signal = "sell" /\ short_signal = "sell")) =>
        /\ NowOfCur = PrevOfCur
        /\ EventsFor(signal_changes, cur) = {}

C7_Witness ==
    /\ Voted /\ PrevOfCur = "buy" /\ NowOfCur = "buy"
    /\ long_signal = "buy" /\ mid_signal = "buy" /\ short_signal = "sell"

\* C8: after construction the tracked symbols are exactly the symbols of the
\* universe whose exchange equals the filter (all of them when no filter is
\* given: None or the empty string), and every tracked symbol's state is
\* neutral.
C8_Construction ==
    (pc = "constructed") =>
        /\ {symbols_list[j] : j \in 1..Len(symbols_list)} =
             {full_symbols_list[j] : j \in
                 {n \in 1..Len(full_symbols_list) :
                     \/ exchange \in {NoneVal, ""}
                     \/ full_symbols_list[n].exchange = exchange}}
        /\ \A j \in 1..Len(symbols_list) :
             DictGet(state, symbols_list[j].symbol) = "neutral"

C8_Witness ==
    /\ pc = "constructed"
    /\ exchange = "NYSE"
    /\ Len(full_symbols_list) = 2
    /\ Len(symbols_list) = 1
    /\ symbols_list[1].exchange = "NYSE"
    /\ state[symbols_list[1].symbol] = "neutral"

\* C9: in every reachable state each key of the state map has a value in
\* {neutral, buy, sell}, the key set is the set of symbol strings of the
\* universe created at construction, and the key execute looks up or writes
\* is a key of the map.
C9_StateMapInvariant ==
    /\ \A k \in DOMAIN state : state[k] \in Signals
    /\ DOMAIN state =
         {full_symbols_list[j].symbol : j \in 1..Len(full_symbols_list)}
    /\ DOMAIN snapshot = DOMAIN state
    /\ cur # NoneVal => cur \in DOMAIN snapshot

C9_Witness ==
    /\ pc = "returned"
    /\ Len(full_symbols_list) = 2
    /\ Len(symbols_list) = 1
    /\ state[symbols_list[1].symbol] = "sell"
    /\ snapshot[symbols_list[1].symbol] = "buy"

----------------------------------------------------------------------------
(* Properties of execute on candlestick windows, checked under SpecData *)

\* the last iteration fetched windows of the sizes asked for
RequestedSizes ==
    /\ cur # NoneVal
    /\ Len(market_data.long_term) = LongLimit
    /\ Len(market_data.mid_term) = MidLimit
    /\ Len(market_data.short_term) = ShortLimit

\* C10: an execute call whose windows have the requested sizes (250, 50 and
\* 50 bars) does not raise: it is never left by an exception, and what it
\* returns is a list, empty when no symbol changed state.
C10_ExecuteCompletes ==
    /\ RequestedSizes => (pc # "raised" /\ exc = NoneVal)
    /\ (pc = "returned" /\ state = snapshot) => result = <<>>

----------------------------------------------------------------------------
(* Two executions of the same strategy object's code side by side          *)
(* (SpecPair): each symbol of the loop is given, in each execution, what   *)
(* the provider and the analyses make of it                                *)

\* what one loop iteration meets: windows with their three votes, windows
\* whose analysis raises, or a get_candlestick_data call that raises
World(kind, long, mid, short) ==
    [kind |-> kind, long |-> long, mid |-> mid, short |-> short]
Worlds ==
    {World("windows", long, mid, short) :
        long \in Signals, mid \in Signals, short \in Signals}
    \cup {World("analysis_raises", NoneVal, NoneVal, NoneVal),
          World("fetch_raises", NoneVal, NoneVal, NoneVal)}

\* an execution that has not been called yet, on the state map st
RunIdle(st) ==
    [state |-> st, snapshot |-> st, signal_changes |-> <<>>,
     pc |-> "constructed", result |-> <<>>]

\* execute is entered: signal_changes = []
RunCall(run) ==
    [run EXCEPT !.snapshot = run.state, !.signal_changes = <<>>,
                !.pc = "loop", !.result = <<>>]

\* one loop iteration of an execution; an execution left by an exception
\* runs no further iteration
RunSymbol(run, symbol, world) ==
    LET key == LoopKey(symbol)
        prev_state == DictGet(run.state, key)
        new_state == TransitionRule(prev_state, world.long, world.mid, world.short)
    IN  IF run.pc # "loop" THEN run
        ELSE IF world.kind # "windows" THEN [run EXCEPT !.pc = "raised"]
        ELSE IF StateChanged(new_state, prev_state)
        THEN [run EXCEPT
                !.state = DictSet(run.state, key, new_state),
                !.signal_changes =
                    IF IsSignal(new_state)
                    THEN Append(@, SignalEvent(symbol, new_state, Requests(key)))
                    ELSE @]
        ELSE run

\* return signal_changes
RunReturn(run) ==
    IF run.pc = "loop"
    THEN [run EXCEPT !.pc = "returned", !.result = run.signal_changes]
    ELSE run

\* both executions agree on the symbol: same previous state, same windows
Agree(a, b, key, world_a, world_b) ==
    /\ world_a = world_b
    /\ world_a.kind # "fetch_raises"
    /\ DictGet(a.snapshot, key) = DictGet(b.snapshot, key)

InitPair ==
    /\ \E n \in 0..MaxSymbols :
         \E exchange_of \in [1..n -> Exchanges] :
           \E exch \in Filters :
             Construct(SubSeq(Catalogue, 1, n), exchange_of, exch)
    /\ InitExecute
    /\ InitManager
    /\ calc = NoneVal
    /\ api = NoneVal
    /\ pair = [j |-> 0, a |-> RunIdle(state), b |-> RunIdle(state), agree |-> {}]

\* both executions are called
PairCall ==
    /\ pair.j \in {0, Len(symbols_list) + 2}
    /\ pair' = [j |-> 1, a |-> RunCall(pair.a), b |-> RunCall(pair.b),
                agree |-> {}]
    /\ UNCHANGED <<strategy_vars, manager_vars, calc, api>>

\* both executions come to the same symbol of symbols_list
PairSymbol ==
    /\ pair.j \in 1..Len(symbols_list)
    /\ LET symbol == symbols_list[pair.j]
           key == LoopKey(symbol)
       IN  \E world_a \in Worlds : \E world_b \in Worlds :
             pair' = [j |-> pair.j + 1,
                      a |-> RunSymbol(pair.a, symbol, world_a),
                      b |-> RunSymbol(pair.b, symbol, world_b),
                      agree |-> IF Agree(pair.a, pair.b, key, world_a, world_b)
                                THEN pair.agree \cup {key}
                                ELSE pair.agree]
    /\ UNCHANGED <<strategy_vars, manager_vars, calc, api>>

\* both executions are over
PairReturn ==
    /\ pair.j = Len(symbols_list) + 1
    /\ pair' = [pair EXCEPT !.j = pair.j + 1,
                            !.a = RunReturn(pair.a),
                            !.b = RunReturn(pair.b)]
    /\ UNCHANGED <<strategy_vars, manager_vars, calc, api>>

NextPair == PairCall \/ PairSymbol \/ PairReturn

SpecPair == InitPair /\ [][NextPair]_vars

\* the types of the events of a list that are about the symbol `key`
EventTypes(events, key) == {events[j].type : j \in EventsFor(events, key)}

\* C11: two executions that agree on a tracked symbol's previous state and
\* on its three windows end with the same state for that symbol and with the
\* same event (present or absent, and of the same type) in what they return,
\* whatever happens to the other symbols, a failing fetch or analysis included.
C11_SymbolsIndependent ==
    pair.j = Len(symbols_list) + 2 =>
        \A key \in pair.agree :
            /\ DictGet(pair.a.state, key) = DictGet(pair.b.state, key)
            /\ EventTypes(pair.a.result, key) = EventTypes(pair.b.result, key)

----------------------------------------------------------------------------
(* StrategyManager (app/strategies/strategy_manager.py), SpecManager *)

\* the events an execute call can hand back
CannedEvent(type) ==
    SignalEvent(SymbolInfo(AssetName("AAPL"), "NASDAQ", "AAPL"), type,
                Requests("AAPL"))

\* Python objects handed to register_strategy, tagged by their class:
\*   "strategy"            an instance of a Strategy_class subclass whose
\*                         execute(self) returns the list `returns`
\*   "ThreeScreenStrategy" an instance of ThreeScreenStrategy, whose execute
\*                         takes api_manager
\*   "duck"                an object with an execute method whose class does
\*                         not inherit from Strategy_class
\*   "plain"               an object without an execute method
PyObject(type, returns) == [type |-> type, returns |-> returns]
Objects ==
    {PyObject("strategy", returns) :
        returns \in {<<>>, <<CannedEvent("buy")>>, <<CannedEvent("sell")>>}}
    \cup {PyObject("ThreeScreenStrategy", <<>>),
          PyObject("duck", <<CannedEvent("buy")>>),
          PyObject("plain", <<>>)}
Names == {"three_screen", "alt"}

\* the classes that inherit from Strategy_class
Subclasses == {"strategy", "ThreeScreenStrategy"}

\* hasattr(obj, 'execute')
HasExecute(obj) == obj.type \in Subclasses \cup {"duck"}

\* isinstance(strategy_instance, Strategy_class)
\* (faulty variant: any object with an execute method passes)
IsInstanceDuck(obj) == HasExecute(obj)
IsInstance(obj) == obj.type \in Subclasses

\* self.strategies[name] = strategy_instance, on a dict kept as the sequence
\* of its entries in insertion order
RegistrySet(registry, name, obj) ==
    IF \E j \in 1..Len(registry) : registry[j].name = name
    THEN [j \in 1..Len(registry) |->
            IF registry[j].name = name
            THEN [name |-> name, value |-> obj]
            ELSE registry[j]]
    ELSE Append(registry, [name |-> name, value |-> obj])

\* self.strategies.items(): (name, value) tuples
Items(registry) ==
    [j \in 1..Len(registry) |->
        [type |-> "tuple", name |-> registry[j].name, value |-> registry[j].value]]

\* strategy.execute() on a loop item
CallExecute(item) ==
    IF item.type = "tuple" THEN PyRaise("AttributeError")
    ELSE IF ~HasExecute(item) THEN PyRaise("AttributeError")
    ELSE IF item.type = "ThreeScreenStrategy" THEN PyRaise("TypeError")
    ELSE PyList(item.returns)

\* the loop of run_strategies from item k on; acc holds all_signals, the
\* registry positions whose execute has been called, and the exception that
\* ended the loop
RECURSIVE RunLoop(_, _, _)
RunLoop(items, k, acc) ==
    IF k > Len(items) THEN acc
    ELSE LET signals == CallExecute(items[k])
         IN  IF IsRaise(signals) THEN [acc EXCEPT !.exc = signals.val]
             ELSE RunLoop(items, k + 1,
                    [acc EXCEPT
                       !.all_signals = IF signals.val # <<>>
                                       THEN @ \o signals.val ELSE @,
                       !.executed = Append(@, k)])

\* if all_signals:
\* (faulty variant: the notification is sent whatever all_signals holds)
SendGuardAlways(all_signals) == TRUE
SendGuard(all_signals) == all_signals # <<>>

\* the arguments of send_notification: one body line and one CSV attachment
\* per signal
Notification(all_signals) ==
    [subject |-> "Trading Signal Alerts",
     body |-> [j \in 1..Len(all_signals) |->
                 [symbol |-> all_signals[j].symbol,
                  type |-> all_signals[j].type,
                  details |-> all_signals[j].details]],
     attachments |-> [j \in 1..Len(all_signals) |->
                 [type |-> all_signals[j].type,
                  details |-> all_signals[j].details,
                  market_data |-> all_signals[j].market_data]]]

\* no strategy object is in play
NoStrategy == Construct(<<>>, <<>>, NoneVal)

InitManagerSpec ==
    /\ NoStrategy
    /\ InitExecute
    /\ InitManager
    /\ pair = NoneVal
    /\ calc = NoneVal
    /\ api = NoneVal

RegisterStrategy ==
    \E name \in Names : \E strategy_instance \in Objects :
        /\ strategies' = IF IsInstance(strategy_instance)
                         THEN RegistrySet(strategies, name, strategy_instance)
                         ELSE strategies
        /\ mgr' = [op |-> "register_strategy", name |-> name,
                   value |-> strategy_instance, before |-> strategies,
                   log |-> IF IsInstance(strategy_instance)
                           THEN "info" ELSE "error",
                   exc |-> NoneVal]
        /\ UNCHANGED <<notifier, strategy_vars, pair, calc, api>>

RunStrategies ==
    LET out == RunLoop(Items(strategies), 1,
                       [all_signals |-> <<>>, executed |-> <<>>, exc |-> NoneVal])
    IN  /\ notifier' = IF out.exc = NoneVal /\ SendGuard(out.all_signals)
                       THEN <<Notification(out.all_signals)>>
                       ELSE <<>>
        /\ mgr' = [op |-> "run_strategies", executed |-> out.executed,
                   all_signals |-> out.all_signals, exc |-> out.exc]
        /\ UNCHANGED <<strategies, strategy_vars, pair, calc, api>>

NextManager == RegisterStrategy \/ RunStrategies

SpecManager == InitManagerSpec /\ [][NextManager]_vars

\* the events the execute methods of the registered values return, in
\* registry order
RECURSIVE RegistryEvents(_)
RegistryEvents(registry) ==
    IF registry = <<>> THEN <<>>
    ELSE Head(registry).value.returns \o RegistryEvents(Tail(registry))

\* obj is the value stored under name
Stored(registry, name, obj) ==
    \E j \in 1..Len(registry) :
        registry[j].name = name /\ registry[j].value = obj

\* C12: run_strategies calls execute once on each registered strategy value,
\* and the batch handed to the notifier holds every event those calls
\* return, one record per event.
C12_RunsAndForwardsAll ==
    mgr.op = "run_strategies" =>
        /\ \A j \in 1..Len(strategies) :
              Cardinality({k \in 1..Len(mgr.executed) : mgr.executed[k] = j}) = 1
        /\ RegistryEvents(strategies) # <<>> =>
              notifier = <<Notification(RegistryEvents(strategies))>>

\* C13: a run_strategies call invokes send_notification at most once, and not
\* at all when the strategies returned no events in that run.
C13_NotifiesAtMostOnce ==
    mgr.op = "run_strategies" =>
        /\ Len(notifier) <= 1
        /\ mgr.all_signals = <<>> => notifier = <<>>
C13_Witness ==
    /\ mgr.op = "run_strategies"
    /\ mgr.exc = NoneVal
    /\ mgr.all_signals = <<>>
    /\ notifier = <<>>

\* C14, as claimed: register_strategy stores obj under name when obj exposes
\* execute; otherwise the registry is left unchanged and nothing is raised.
C14_RegisterByCapability ==
    mgr.op = "register_strategy" =>
        /\ mgr.exc = NoneVal
        /\ IF HasExecute(mgr.value)
           THEN Stored(strategies, mgr.name, mgr.value)
           ELSE strategies = mgr.before

\* C14, amended: register_strategy stores obj under name, leaving the other
\* entries alone, when obj is an instance of a Strategy_class subclass; any
\* other object, one with an execute method included, leaves the registry
\* unchanged; no exception is raised either way, so a registration made
\* after a rejected one is stored as well.
C14_RegisterBySubclass ==
    mgr.op = "register_strategy" =>
        /\ mgr.exc = NoneVal
        /\ IF mgr.value.type \in Subclasses
           THEN /\ Stored(strategies, mgr.name, mgr.value)
                /\ strategies = RegistrySet(mgr.before, mgr.name, mgr.value)
           ELSE strategies = mgr.before
C14_Witness ==
    /\ mgr.op = "register_strategy"
    /\ mgr.value.type = "duck"
    /\ mgr.before # <<>>
    /\ strategies = mgr.before

----------------------------------------------------------------------------
(* IndicatorCalculator: calculate_sma and calculate_rsi *)

RMax(a, b) == IF RLess(a, b) THEN b ELSE a
RMin(a, b) == IF RLess(a, b) THEN a ELSE b
RAbs(a) == <<Abs(a[1]), a[2]>>

\* xs[lo:hi] of a list, 0 <= lo
PySlice(xs, lo, hi) == SubSeq(xs, lo + 1, IF hi < Len(xs) THEN hi ELSE Len(xs))

\* range(period, len(closing_prices))
\* (faulty variant: the range runs up to len(closing_prices) included)
sma_range_inclusive(period, n) == period..n
sma_range(period, n) == period..(n - 1)

\* closing_prices[i - period:i]
\* (faulty variant: the window that ends at closing_prices[i])
sma_window_ending_at_i(prices, idx, period) ==
    PySlice(prices, idx - period + 1, idx + 1)
sma_window(prices, idx, period) == PySlice(prices, idx - period, idx)

\* calculate_sma(period, closing_prices)
calculate_sma(period, closing_prices) ==
    IF period.type # "int" THEN PyRaise("TypeError")
    ELSE IF closing_prices.type # "list" THEN PyRaise("TypeError")
    ELSE LET p == period.val
             prices == closing_prices.val
             count == Cardinality(sma_range(p, Len(prices)))
         IN  PyList([k \in 1..count |->
                LET idx == p + k - 1
                IN  FDivInt(Sum(sma_window(prices, idx, p)), p)])

\* gains and losses of calculate_rsi: element i - 1 for i in
\* range(1, len(closing_prices))
\* (faulty variant: every change counts as a gain, by its size)
GainsOfAllChanges(prices) ==
    IF prices = <<>> THEN <<>>
    ELSE [j \in 1..(Len(prices) - 1) |-> RAbs(FSub(prices[j + 1], prices[j]))]
Gains(prices) ==
    IF prices = <<>> THEN <<>>
    ELSE [j \in 1..(Len(prices) - 1) |->
            RMax(FSub(prices[j + 1], prices[j]), Float(0))]
\* (faulty variant: every change counts as a loss, by its size)
LossesOfAllChanges(prices) ==
    IF prices = <<>> THEN <<>>
    ELSE [j \in 1..(Len(prices) - 1) |-> RAbs(FSub(prices[j + 1], prices[j]))]
Losses(prices) ==
    IF prices = <<>> THEN <<>>
    ELSE [j \in 1..(Len(prices) - 1) |->
            RAbs(RMin(FSub(prices[j + 1], prices[j]), Float(0)))]

\* the value appended to rsi for the averages at hand
\* (faulty variant: 100 / (1 + rs) is not taken from 100)
RsiValueNotComplemented(avg_gain, avg_loss) ==
    IF avg_loss = Float(0) THEN Float(100)
    ELSE FDiv(Float(100), FAdd(Float(1), FDiv(avg_gain, avg_loss)))
RsiValue(avg_gain, avg_loss) ==
    IF avg_loss = Float(0) THEN Float(100)
    ELSE LET rs == FDiv(avg_gain, avg_loss)
         IN  FSub(Float(100), FDiv(Float(100), FAdd(Float(1), rs)))

\* one iteration of the smoothing loop of calculate_rsi: the averages are
\* smoothed with the gain and the loss at hand and give the value appended
rsi_step(before, gain, loss, period) ==
    LET avg_gain == FDivInt(FAdd(FMul(before.avg_gain, Float(period - 1)), gain), period)
        avg_loss == FDivInt(FAdd(FMul(before.avg_loss, Float(period - 1)), loss), period)
    IN  [value |-> RsiValue(avg_gain, avg_loss),
         avg_gain |-> avg_gain,
         avg_loss |-> avg_loss]

\* the smoothing loop of calculate_rsi, for i in
\* range(period + 1, len(closing_prices)): what the iterations lo..hi leave,
\* in order, first those up to the middle, then the rest; gains[i - 1] is
\* gains[i] here, where positions count from 1
RECURSIVE rsi_loop(_, _, _, _, _, _)
rsi_loop(before, gains, losses, period, lo, hi) ==
    IF lo > hi THEN <<>>
    ELSE IF lo = hi THEN <<rsi_step(before, gains[lo], losses[lo], period)>>
    ELSE LET mid == (lo + hi) \div 2
             left == rsi_loop(before, gains, losses, period, lo, mid)
         IN  left \o rsi_loop(left[Len(left)], gains, losses, period, mid + 1, hi)

\* calculate_rsi(period, closing_prices)
calculate_rsi(period, closing_prices) ==
    IF period.type # "int" THEN PyRaise("TypeError")
    ELSE IF closing_prices.type # "list" THEN PyRaise("TypeError")
    ELSE LET p == period.val
             prices == closing_prices.val
             gains == Gains(prices)
             losses == Losses(prices)
             avg_gain == FDivInt(Sum(Slice(gains, p)), p)
             avg_loss == FDivInt(Sum(Slice(losses, p)), p)
             padding == [j \in 1..p |-> Null]
             seed == [value |-> RsiValue(avg_gain, avg_loss),
                      avg_gain |-> avg_gain,
                      avg_loss |-> avg_loss]
             steps == rsi_loop(seed, gains, losses, p, p + 1, Len(prices) - 1)
         IN  PyList(Append(padding, seed.value)
                    \o [k \in 1..Len(steps) |-> steps[k].value])

----------------------------------------------------------------------------
(* IndicatorCalculator: calculate_bollinger_bands *)

\* raise ValueError(message)
PyRaiseMsg(kind, msg) == [type |-> "raise", val |-> kind, msg |-> msg]

\* if len(closing_prices) < period
\* (faulty variant: the length of the data is not looked at)
DataTooShortNever(n, period) == FALSE
DataTooShort(n, period) == n < period

\* if len(sma) < period
SmaTooShort(sma, period) == Len(sma) < period

\* the standard deviation appended for index i, i >= period:
\* window = closing_prices[i - period + 1:i + 1], divided by period
std_dev(prices, idx, period) ==
    LET window == PySlice(prices, idx - period + 1, idx + 1)
        mean == FDivInt(Sum(window), period)
        squares == [j \in 1..Len(window) |->
                      FMul(FSub(window[j], mean), FSub(window[j], mean))]
        variance == FDivInt(Sum(squares), period)
    IN  FSqrt(variance)

\* std_devs: one entry for each i in range(len(closing_prices)) with
\* i >= period
std_devs(prices, period) ==
    IF Len(prices) <= period THEN <<>>
    ELSE [k \in 1..(Len(prices) - period) |-> std_dev(prices, period + k - 1, period)]

\* sma[i] + std_dev_multiplier * std_devs[i]
upper_value(center, multiplier, deviation) ==
    FAdd(center, FMul(Float(multiplier), deviation))

\* sma[i] - std_dev_multiplier * std_devs[i]
lower_value(center, multiplier, deviation) ==
    FSub(center, FMul(Float(multiplier), deviation))

\* calculate_bollinger_bands(period, std_dev_multiplier, closing_prices)
calculate_bollinger_bands(period, std_dev_multiplier, closing_prices) ==
    IF closing_prices.type # "list" \/ period.type # "int" THEN PyRaise("TypeError")
    ELSE IF DataTooShort(Len(closing_prices.val), period.val)
    THEN PyRaiseMsg("ValueError", "La longitud de los datos")
    ELSE LET sma == calculate_sma(period, closing_prices).val
             deviations == std_devs(closing_prices.val, period.val)
         IN  IF SmaTooShort(sma, period.val)
             THEN PyRaiseMsg("ValueError", "La longitud de la SMA calculada es demasiado corta")
             ELSE IF Len(deviations) < Len(sma)
             THEN PyRaise("IndexError")    \* std_devs[i] past the end of std_devs
             ELSE PyList(<<
                    PyList([k \in 1..Len(sma) |->
                        upper_value(sma[k], std_dev_multiplier.val, deviations[k])]),
                    PyList([k \in 1..Len(sma) |->
                        lower_value(sma[k], std_dev_multiplier.val, deviations[k])])>>)

----------------------------------------------------------------------------
(* ThreeScreenStrategy.analyze_mid_term *)

RsiPeriod == 14
BollingerPeriod == 20
BollingerMultiplier == 2
Oversold == 30
Overbought == 70

\* the if / elif / return of analyze_mid_term
\* (faulty variant: the sell condition is tested first)
MidTermVoteSellFirst(rsi_last, close, lower, upper) ==
    IF RLess(Float(Overbought), rsi_last) \/ RLess(upper, close) THEN "sell"
    ELSE IF RLess(rsi_last, Float(Oversold)) \/ RLess(close, lower) THEN "buy"
    ELSE "neutral"
MidTermVote(rsi_last, close, lower, upper) ==
    IF RLess(rsi_last, Float(Oversold)) \/ RLess(close, lower) THEN "buy"
    ELSE IF RLess(Float(Overbought), rsi_last) \/ RLess(upper, close) THEN "sell"
    ELSE "neutral"

\* the vote of the second screen, or the exception it raises
analyze_mid_term(data) ==
    LET closing_prices == extract_closing_prices(data)
        rsi == calculate_rsi(PyInt(RsiPeriod), closing_prices)
        bands == calculate_bollinger_bands(PyInt(BollingerPeriod),
                                           PyInt(BollingerMultiplier), closing_prices)
    IN  IF IsRaise(rsi) THEN rsi
        ELSE IF IsRaise(bands) THEN bands
        ELSE LET upper_band == bands.val[1].val
                 lower_band == bands.val[2].val
             IN  IF upper_band = <<>> \/ closing_prices.val = <<>>
                 THEN PyRaise("IndexError")
                 ELSE PyStr(MidTermVote(Last(rsi.val), Last(closing_prices.val),
                                        Last(lower_band), Last(upper_band)))

----------------------------------------------------------------------------
(* The indicator functions on bounded inputs (SpecIndicators): Init draws  *)
(* the arguments of one call, the action applies the function              *)

MaxLen == 4
MaxPeriod == 3
MaxPrice == 3

MaxClose == 12
MaxConstLen == 6
MaxMultiplier == 2

Periods == 1..MaxPeriod
Series == UNION {[1..n -> 1..MaxPrice] : n \in 0..MaxLen}

\* series whose closes are all the same
ConstantSeries ==
    {[j \in 1..n |-> c] : n \in 1..MaxConstLen, c \in 1..MaxClose}
Multipliers == 0..MaxMultiplier

\* series that rise or fall by a constant step
MaxStep == 2
Trend(n, start, step) == [j \in 1..n |-> start + step * (j - 1)]
TrendSeries ==
    {series \in {Trend(n, start, step) :
                    n \in 2..MaxConstLen, start \in 1..MaxClose,
                    step \in (-MaxStep)..MaxStep} :
        series[2] # series[1] /\ series[Len(series)] >= 1}

\* mid-term windows of MidLimit bars: a fall or a rise of TrendBars bars that
\* goes flat, or a sideways market, with a last bar up to MaxJump away from
\* the level reached
TrendBars == 29
MaxJump == 3
MidShapes == {"fall", "rise", "sideways"}
MidLevel(shape) == IF shape = "rise" THEN MaxJump + 1 + TrendBars ELSE MaxJump + 1
MidClose(shape, j) ==
    LET togo == IF j > TrendBars THEN 0 ELSE TrendBars - j + 1
    IN  CASE shape = "fall" -> MidLevel(shape) + togo
          [] shape = "rise" -> MidLevel(shape) - togo
          [] OTHER -> MidLevel(shape) + (j % 2)
MidWindow(shape, last) ==
    [j \in 1..MidLimit |-> IF j = MidLimit THEN last ELSE MidClose(shape, j)]
MidWindows ==
    {MidWindow(shape, MidLevel(shape) + jump) :
        shape \in MidShapes, jump \in (-MaxJump)..MaxJump}

\* the candlesticks of a series of closes, ascending by time
Candles(series) == [j \in 1..Len(series) |-> [time |-> j * 1000, close |-> series[j]]]

\* the closing prices of a series, as extract_closing_prices hands them over
ClosingPrices(series) == PyList([j \in 1..Len(series) |-> Float(series[j])])

Pending == [type |-> "pending", val |-> <<>>]

\* a call of fn with its arguments, not made yet; periods holds the period,
\* or (short_period, long_period, signal_period) for calculate_macd
Call(fn, periods, series) ==
    [fn |-> fn, periods |-> periods, series |-> series, out |-> Pending]

InitIndicators ==
    /\ NoStrategy
    /\ InitExecute
    /\ InitManager
    /\ pair = NoneVal
    /\ api = NoneVal
    /\ \/ \E window \in MidWindows :
            calc = Call("analyze_mid_term", <<>>, window)
       \/ \E series \in Series \cup ConstantSeries \cup TrendSeries :
         \/ \E fn \in {"calculate_sma", "calculate_ema", "calculate_rsi"} :
              \E period \in Periods : calc = Call(fn, <<period>>, series)
         \/ \E period \in Periods : \E std_dev_multiplier \in Multipliers :
              calc = Call("calculate_bollinger_bands",
                          <<period, std_dev_multiplier>>, series)
         \/ \E short_period \in Periods : \E long_period \in Periods :
              \E signal_period \in Periods :
                calc = Call("calculate_macd",
                            <<short_period, long_period, signal_period>>, series)

\* the call returns or raises
Returns(out) ==
    /\ calc.out.type = "pending"
    /\ calc' = [calc EXCEPT !.out = out]
    /\ UNCHANGED <<strategy_vars, manager_vars, pair, api>>

CallSma ==
    /\ calc.fn = "calculate_sma"
    /\ Returns(calculate_sma(PyInt(calc.periods[1]), ClosingPrices(calc.series)))

CallEma ==
    /\ calc.fn = "calculate_ema"
    /\ Returns(calculate_ema(PyInt(calc.periods[1]), ClosingPrices(calc.series)))

CallRsi ==
    /\ calc.fn = "calculate_rsi"
    /\ Returns(calculate_rsi(PyInt(calc.periods[1]), ClosingPrices(calc.series)))

CallMacd ==
    /\ calc.fn = "calculate_macd"
    /\ Returns(calculate_macd(ClosingPrices(calc.series), PyInt(calc.periods[1]),
                              PyInt(calc.periods[2]), PyInt(calc.periods[3])))

CallBollingerBands ==
    /\ calc.fn = "calculate_bollinger_bands"
    /\ Returns(calculate_bollinger_bands(PyInt(calc.periods[1]), PyInt(calc.periods[2]),
                                         ClosingPrices(calc.series)))

CallAnalyzeMidTerm ==
    /\ calc.fn = "analyze_mid_term"
    /\ Returns(analyze_mid_term(Candles(calc.series)))

NextIndicators ==
    CallSma \/ CallEma \/ CallRsi \/ CallMacd \/ CallBollingerBands \/ CallAnalyzeMidTerm

SpecIndicators == InitIndicators /\ [][NextIndicators]_vars

----------------------------------------------------------------------------
(* AlpacaAPI.get_candlestick_data (app/api/alpaca_api.py), under         *)
(* SpecAlpaca: the calls the function makes to the Alpaca client, one    *)
(* for each level of its recursion                                       *)

\* bars in one answer of the client, their times, the limits asked for
MaxBars == 3
MaxTime == 3
MaxLimit == 3

\* extra_time=10, extra_time + 30, extra_time < 500
ExtraTimeDefault == 10
ExtraTimeStep == 30
ExtraTimeCap == 500

Limits == 0..MaxLimit

\* what get_bars / get_crypto_bars may answer: the times of the bars, in the
\* order the client hands them over
Barsets == UNION {[1..n -> 1..MaxTime] : n \in 0..MaxBars}

\* candlestick_data.sort(key=lambda x: x["time"])
RECURSIVE SortByTime(_)
SortByTime(bars) ==
    IF bars = <<>> THEN <<>>
    ELSE LET sorted == SortByTime(SubSeq(bars, 1, Len(bars) - 1))
             last == bars[Len(bars)]
             keep == Cardinality({k \in 1..Len(sorted) : sorted[k] <= last})
         IN  SubSeq(sorted, 1, keep) \o <<last>> \o SubSeq(sorted, keep + 1, Len(sorted))

\* candlestick_data[-limit:]: -0 is 0, so that a limit of 0 keeps the whole list
Trim(bars, limit) ==
    LET start == IF limit = 0 THEN 0
                 ELSE IF Len(bars) > limit THEN Len(bars) - limit ELSE 0
    IN  SubSeq(bars, start + 1, Len(bars))

\* if len(candlestick_data) < limit and extra_time < 500
MustRetry(count, limit, extra_time) == count < limit /\ extra_time < ExtraTimeCap

NoCall == [pc |-> "idle", limit |-> 0, extra_time |-> 0, retries |-> 0,
           fetched |-> <<>>, result |-> NoneVal]

InitAlpaca ==
    /\ NoStrategy
    /\ InitExecute
    /\ InitManager
    /\ pair = NoneVal
    /\ calc = NoneVal
    /\ api = NoCall

\* get_candlestick_data(symbol, interval, limit): extra_time takes its default
GetCandlestickData ==
    /\ api.pc # "fetch"
    /\ \E limit \in Limits :
         api' = [NoCall EXCEPT !.pc = "fetch", !.limit = limit,
                               !.extra_time = ExtraTimeDefault]
    /\ UNCHANGED <<strategy_vars, pair, manager_vars, calc>>

\* the client answers with too few bars and the function calls itself with
\* extra_time + 30
FetchRetries ==
    /\ api.pc = "fetch"
    /\ \E barset \in Barsets :
         /\ MustRetry(Len(barset), api.limit, api.extra_time)
         /\ api' = [api EXCEPT !.extra_time = @ + ExtraTimeStep,
                               !.retries = @ + 1,
                               !.fetched = barset]
    /\ UNCHANGED <<strategy_vars, pair, manager_vars, calc>>

\* the client answers and the bars are sorted, trimmed and returned through
\* every level of the recursion
FetchReturns ==
    /\ api.pc = "fetch"
    /\ \E barset \in Barsets :
         /\ ~MustRetry(Len(barset), api.limit, api.extra_time)
         /\ api' = [api EXCEPT !.pc = "returned",
                               !.fetched = barset,
                               !.result = Trim(SortByTime(barset), api.limit)]
    /\ UNCHANGED <<strategy_vars, pair, manager_vars, calc>>

\* the client raises: every level logs the error and raises it again
FetchRaises ==
    /\ api.pc = "fetch"
    /\ api' = [api EXCEPT !.pc = "raised"]
    /\ UNCHANGED <<strategy_vars, pair, manager_vars, calc>>

NextAlpaca == GetCandlestickData \/ FetchRetries \/ FetchReturns \/ FetchRaises

\* every call of the client is answered or fails
SpecAlpaca == InitAlpaca /\ [][NextAlpaca]_vars /\ WF_vars(NextAlpaca)

----------------------------------------------------------------------------
(* Properties of the indicator functions, checked under SpecIndicators *)

\* the call of fn has been made
Called(fn) == calc.fn = fn /\ calc.out.type # "pending"

\* the arguments and the value of the call
Period == calc.periods[1]
Prices == ClosingPrices(calc.series).val
Out == calc.out.val

\* arithmetic mean of a non-empty list
Mean(xs) == FDivInt(Sum(xs), Len(xs))

C16_SmaWindowAfter ==
    Called("calculate_sma") =>
        \A k \in 1..Len(Out) :
            Out[k] = Mean(SubSeq(Prices, k + 1, k + Period))

\* C16, amended: element i of calculate_sma(period, P), i counted from 0, is
\* the mean of the period prices P[i .. i+period-1].
C16_SmaWindowFrom ==
    Called("calculate_sma") =>
        \A k \in 1..Len(Out) :
            Out[k] = Mean(SubSeq(Prices, k, k + Period - 1))
C16_Witness ==
    /\ Called("calculate_sma")
    /\ Period > 1
    /\ Len(Out) > 1
    /\ Out[1] # Out[2]

\* C17: positions 0..p-2 of calculate_ema(p, P) are null and position p-1 is
\* the arithmetic mean of the first p elements of P that exist, for P of any
\* length.
C17_EmaSeedIsMean ==
    Called("calculate_ema") =>
        /\ calc.out.type = "list"
        /\ Len(Out) >= Period
        /\ \A j \in 1..(Period - 1) : Out[j] = Null
        /\ Prices # <<>> => Out[Period] = Mean(Slice(Prices, Period))

\* C18: calculate_ema(period, P) does not raise on a short series: it returns
\* period entries, period-1 nulls then a seed, when len(P) < period, and
\* len(P) entries, every one from position period-1 on not null, otherwise.
C18_EmaShape ==
    Called("calculate_ema") =>
        /\ calc.out.type = "list"
        /\ IF Len(Prices) < Period
           THEN /\ Len(Out) = Period
                /\ \A j \in 1..(Period - 1) : Out[j] = Null
                /\ Out[Period] # Null
           ELSE /\ Len(Out) = Len(Prices)
                /\ \A j \in Period..Len(Out) : Out[j] # Null
C18_Witness ==
    /\ Called("calculate_ema")
    /\ Len(Prices) < Period
    /\ Len(Prices) > 0
    /\ calc.out.type = "list"
    /\ Len(Out) = Period

BothDefined(xs, ys, j) ==
    /\ j <= Len(xs) /\ j <= Len(ys)
    /\ xs[j] # Null /\ ys[j] # Null

\* C20: calculate_macd(P, short, long, signal) returns (macd_line,
\* signal_line, histogram): macd_line is EMA(short, P) - EMA(long, P) where
\* both are defined, signal_line is EMA(signal, macd_line), and histogram is
\* macd_line - signal_line where both are defined.
C20_MacdTriple ==
    Called("calculate_macd") =>
        /\ calc.out.type = "list"
        /\ Len(Out) = 3
        /\ LET short_ema == calculate_ema(PyInt(calc.periods[1]), PyList(Prices)).val
               long_ema == calculate_ema(PyInt(calc.periods[2]), PyList(Prices)).val
               macd_line == Out[1].val
               signal_line == Out[2].val
               histogram == Out[3].val
           IN  /\ \A j \in 1..Len(macd_line) :
                     BothDefined(short_ema, long_ema, j) =>
                        macd_line[j] = FSub(short_ema[j], long_ema[j])
               /\ Out[2] = calculate_ema(PyInt(calc.periods[3]), Out[1])
               /\ \A j \in 1..Len(histogram) :
                     BothDefined(macd_line, signal_line, j) =>
                        histogram[j] = FSub(macd_line[j], signal_line[j])

----------------------------------------------------------------------------
(* Properties of calculate_bollinger_bands, checked under SpecIndicators *)

\* the bands of a call that returned
UpperBand == Out[1].val
LowerBand == Out[2].val

\* C21: calculate_bollinger_bands(period, m, P) raises the insufficient-data
\* ValueError, and so returns no bands, whenever len(P) < period.
C21_BandsInsufficientData ==
    (Called("calculate_bollinger_bands") /\ Len(Prices) < Period) =>
        /\ calc.out.type = "raise"
        /\ calc.out.val = "ValueError"
        /\ calc.out.msg = "La longitud de los datos"
C21_Witness ==
    /\ Called("calculate_bollinger_bands")
    /\ Len(Prices) > 0
    /\ Len(Prices) < Period
    /\ calc.out.type = "raise"

\* C22: for len(P) >= period, calculate_bollinger_bands returns an upper and
\* a lower band that each have the length of the SMA output, len(P) - period.
C22_BandsAlignedWithSma ==
    (Called("calculate_bollinger_bands") /\ Len(Prices) >= Period) =>
        /\ calc.out.type = "list"
        /\ Len(UpperBand) = Len(Prices) - Period
        /\ Len(LowerBand) = Len(Prices) - Period
        /\ Len(calculate_sma(PyInt(Period), PyList(Prices)).val) = Len(UpperBand)

\* all closes of the series are the same
AllSame(series) == \A j \in 1..Len(series) : series[j] = series[1]

\* C23: when all closes are the same value c, the last upper and the last
\* lower band value are both c, whatever the multiplier: the width is 0.
C23_ZeroWidthOnConstant ==
    (/\ Called("calculate_bollinger_bands")
     /\ calc.out.type = "list"
     /\ AllSame(calc.series)) =>
        /\ Last(UpperBand) = Last(LowerBand)
        /\ Last(UpperBand) = Float(calc.series[1])

----------------------------------------------------------------------------
(* Properties of calculate_rsi, checked under SpecIndicators *)

\* the price change from close j to close j + 1 (positions from 1)
Change(j) == FSub(Prices[j + 1], Prices[j])

\* the positions of the first `Period` price changes the series has
SeedChanges ==
    {j \in 1..Period : j < Len(Prices)}

\* the sum of f over the seed changes, in order
RECURSIVE SumChanges(_, _)
SumChanges(f(_), k) ==
    IF k = 0 THEN Float(0)
    ELSE IF k \in SeedChanges THEN FAdd(SumChanges(f, k - 1), f(k))
    ELSE SumChanges(f, k - 1)

GainOf(j) == IF RLess(Float(0), Change(j)) THEN Change(j) ELSE Float(0)
LossOf(j) == IF RLess(Change(j), Float(0)) THEN RSub(Float(0), Change(j)) ELSE Float(0)

\* average gain and loss over the first `Period` price changes
SeedAvgGain == FDivInt(SumChanges(GainOf, Period), Period)
SeedAvgLoss == FDivInt(SumChanges(LossOf, Period), Period)

\* C24: the first `period` positions of calculate_rsi(period, P) are null and
\* every later one is not; position `period` holds 100 - 100/(1 + RS) with
\* RS = avg_gain/avg_loss over the first `period` price changes, and exactly
\* 100 when avg_loss is 0.
C24_RsiSeed ==
    Called("calculate_rsi") =>
        /\ calc.out.type = "list"
        /\ Len(Out) > Period
        /\ \A j \in 1..Period : Out[j] = Null
        /\ \A j \in (Period + 1)..Len(Out) : Out[j] # Null
        /\ Out[Period + 1] =
             IF SeedAvgLoss = Float(0) THEN Float(100)
             ELSE FSub(Float(100),
                       FDiv(Float(100), FAdd(Float(1), FDiv(SeedAvgGain, SeedAvgLoss))))
C24_Witness ==
    /\ Called("calculate_rsi")
    /\ Len(Prices) > Period + 1
    /\ SeedAvgLoss # Float(0)
    /\ SeedAvgGain # Float(0)

\* the series rises by the same positive step from each close to the next
RisesByConstantStep(series) ==
    /\ Len(series) >= 2
    /\ series[2] > series[1]
    /\ \A j \in 1..(Len(series) - 1) : series[j + 1] - series[j] = series[2] - series[1]

\* C25: on a series that rises by a constant positive step and has at least
\* period + 1 closes, the last value of calculate_rsi(period, P) is exactly
\* 100.
C25_RsiAllGains ==
    (/\ Called("calculate_rsi")
     /\ RisesByConstantStep(calc.series)
     /\ Len(calc.series) >= Period + 1) =>
        Last(Out) = Float(100)
C25_Witness ==
    /\ Called("calculate_rsi")
    /\ RisesByConstantStep(calc.series)
    /\ Len(calc.series) >= Period + 3
    /\ Last(Out) = Float(100)

StrictlyDecreasing(series) ==
    \A j \in 1..(Len(series) - 1) : series[j + 1] < series[j]
Increasing(series) ==
    \A j \in 1..(Len(series) - 1) : series[j + 1] >= series[j]

\* the last RSI value lies in [0, 30), in (70, 100]
LastIsOversold == RLess(Last(Out), Float(30)) /\ ~RLess(Last(Out), Float(0))
LastIsOverbought == RLess(Float(70), Last(Out)) /\ ~RLess(Float(100), Last(Out))

\* C26, as claimed: on every strictly decreasing series the last value of
\* calculate_rsi is below 30 and not negative, on every increasing series it
\* is above 70 and not above 100.
C26_RsiMonotone ==
    Called("calculate_rsi") =>
        /\ StrictlyDecreasing(calc.series) => LastIsOversold
        /\ Increasing(calc.series) => LastIsOverbought

\* C26, amended: the same, for strictly decreasing series of at least two
\* closes; a series of one close or none has no price change and ends at 100.
C26_RsiMonotoneTwoCloses ==
    Called("calculate_rsi") =>
        /\ (StrictlyDecreasing(calc.series) /\ Len(calc.series) >= 2) => LastIsOversold
        /\ Increasing(calc.series) => LastIsOverbought
        /\ Len(calc.series) < 2 => Last(Out) = Float(100)
C26_Witness ==
    /\ Called("calculate_rsi")
    /\ StrictlyDecreasing(calc.series)
    /\ Len(calc.series) > Period + 1
    /\ LastIsOversold

----------------------------------------------------------------------------
(* Properties of analyze_mid_term, checked under SpecIndicators *)

\* what the second screen looks at: the last RSI(14) value, the last close
\* and the last values of the Bollinger bands (20, 2)
MidRsi == Last(calculate_rsi(PyInt(RsiPeriod), ClosingPrices(calc.series)).val)
MidBands ==
    calculate_bollinger_bands(PyInt(BollingerPeriod), PyInt(BollingerMultiplier),
                              ClosingPrices(calc.series)).val
MidUpper == Last(MidBands[1].val)
MidLower == Last(MidBands[2].val)
MidCloseLast == Float(Last(calc.series))

BuyCondition == RLess(MidRsi, Float(30)) \/ RLess(MidCloseLast, MidLower)
SellCondition == RLess(Float(70), MidRsi) \/ RLess(MidUpper, MidCloseLast)

\* C27: the mid-term vote is buy when the last RSI value is below 30 or the
\* last close is below the last lower band value; otherwise sell when the
\* last RSI value is above 70 or the last close is above the last upper band
\* value; otherwise neutral. With a buy and a sell condition together the
\* vote is buy.
C27_MidTermVote ==
    (Called("analyze_mid_term") /\ calc.out.type = "str") =>
        /\ BuyCondition => Out = "buy"
        /\ (~BuyCondition /\ SellCondition) => Out = "sell"
        /\ (~BuyCondition /\ ~SellCondition) => Out = "neutral"
C27_Witness ==
    /\ Called("analyze_mid_term")
    /\ calc.out.type = "str"
    /\ BuyCondition
    /\ SellCondition
    /\ Out = "buy"

----------------------------------------------------------------------------
(* Properties of AlpacaAPI.get_candlestick_data, checked under SpecAlpaca *)

\* a call that is waiting for the client ends, by a return or an exception
RetryTerminates == (api.pc = "fetch") ~> (api.pc \in {"returned", "raised"})

\* extra_time starts at 10 and a retry adds 30; a retry is made only below
\* 500 and with fewer than limit bars received
RetryStepsBy30 ==
    [][/\ (api.pc # "fetch" /\ api'.pc = "fetch") =>
            api'.extra_time = 10
       /\ (api.pc = "fetch" /\ api'.pc = "fetch") =>
            /\ api'.extra_time = api.extra_time + 30
            /\ api.extra_time < 500
            /\ Len(api'.fetched) < api.limit]_vars

\* the number of bars of the list at the time t
CountOf(bars, t) == Cardinality({k \in 1..Len(bars) : bars[k] = t})

\* the list returned has at most limit bars, ascending by time, and they are
\* the most recent ones of the bars fetched last
ResultTrimmed ==
    api.pc = "returned" =>
        /\ Len(api.result) <= api.limit
        /\ \A k \in 1..(Len(api.result) - 1) : api.result[k] <= api.result[k + 1]
        /\ \A t \in 1..MaxTime : CountOf(api.result, t) <= CountOf(api.fetched, t)
        /\ Len(api.result) < Len(api.fetched) =>
             \A t \in 1..MaxTime :
                CountOf(api.result, t) < CountOf(api.fetched, t) =>
                    \A k \in 1..Len(api.result) : t <= api.result[k]

\* C28: get_candlestick_data always ends its retry recursion: each retry
\* raises extra_time by 30 starting from 10, and none is made once
\* extra_time >= 500 or at least limit bars were received; the list returned
\* has at most limit candlesticks, ascending by time, the most recent ones of
\* the bars fetched.
C28_RetryEndsAndTrims == RetryTerminates /\ RetryStepsBy30 /\ []ResultTrimmed

----------------------------------------------------------------------------
(* Properties of execute as a whole, checked under Spec *)

\* the keys of the symbols the loop has not finished: the one at position i
\* and those after it
Unfinished == {symbols_list[j].symbol : j \in i..Len(symbols_list)}

\* C29: a fetch or an analysis that raises is not retried and ends the
\* execute call with that exception: the failing symbol and every symbol not
\* yet processed keep their previous state, the state changes already made
\* for earlier symbols stay in the state map, and no event is returned.
C29_RaiseEndsCall ==
    [][/\ (pc = "loop" /\ pc' = "raised") =>
            /\ exc' # NoneVal
            /\ result' = NoneVal
            /\ state' = state
            /\ i' = i
            /\ \A key \in Unfinished : state'[key] = snapshot'[key]
       /\ pc = "raised" => (pc' = "loop" /\ i' = 1 /\ state' = state)]_vars
C29_Witness ==
    /\ pc = "raised"
    /\ i = 2
    /\ Len(symbols_list) = 2
    /\ snapshot[symbols_list[1].symbol] = "neutral"
    /\ state[symbols_list[1].symbol] = "buy"
    /\ signal_changes # <<>>
    /\ result = NoneVal

\* the symbols of the universe the exchange filter leaves out
Untracked ==
    {full_symbols_list[j].symbol : j \in
        {n \in 1..Len(full_symbols_list) :
            /\ exchange \notin {NoneVal, ""}
            /\ full_symbols_list[n].exchange # exchange}}

\* C30: the state map has an entry for every symbol of the universe, those
\* the exchange filter leaves out included, and execute reads and writes the
\* entries of tracked symbols only: the state of a symbol that is not tracked
\* is neutral after any sequence of execute calls.
C30_UntrackedStayNeutral ==
    /\ \A j \in 1..Len(full_symbols_list) : full_symbols_list[j].symbol \in DOMAIN state
    /\ \A key \in Untracked : state[key] = "neutral"
    /\ cur # NoneVal => cur \notin Untracked
C30_Witness ==
    /\ pc = "returned"
    /\ Len(full_symbols_list) = 2
    /\ Len(symbols_list) = 1
    /\ Untracked # {}
    /\ state[symbols_list[1].symbol] = "buy"
    /\ snapshot[symbols_list[1].symbol] = "sell"

====
